---- MODULE Spec2Model ----
(***************************************************************************)
(* Model of src/prime.js: class Switch, the GPU switch controller of the   *)
(* prime-indicator shell extension.                                        *)
(*                                                                         *)
(* A JavaScript string is a sequence of tokens (words, " " and "\n"); a    *)
(* JavaScript value is a tagged record, so that null, the empty string and *)
(* a non-empty string stay three different values.                         *)
(***************************************************************************)
EXTENDS Integers, Sequences, FiniteSets, Bags

VARIABLES
    onPath,      \* the executables present on the search path (environment)
    whichStyle,  \* what `which` prints for a missing executable (environment)
    _commands,   \* this._commands
    _gpu,        \* this._gpu
    _listener,   \* this._listener
    watches,     \* the uncancelled Gio file monitors
    inflight,    \* bag of the running asynchronous subprocesses
    last         \* observation of the most recent operation

vars == <<onPath, whichStyle, _commands, _gpu, _listener, watches, inflight, last>>

----------------------------------------------------------------------------
(* Bounds *)

\* the largest number of asynchronous subprocesses running at once
MaxInflight == 2

----------------------------------------------------------------------------
(* JavaScript values and strings *)

Null == [t |-> "null", v |-> <<>>]

Str(s) == [t |-> "str", v |-> s]

Empty == Str(<<>>)

\* JavaScript truthiness of null / string
Truthy(x) == x.t = "obj" \/ (x.t = "str" /\ x.v # <<>>)

\* a || b
Or(a, b) == IF Truthy(a) THEN a ELSE b

\* a + b on strings
Cat(a, b) == Str(a.v \o b.v)

WhiteSpace == {" ", "\n"}

RECURSIVE TrimLeft(_)
TrimLeft(s) ==
    IF s # <<>> /\ Head(s) \in WhiteSpace THEN TrimLeft(Tail(s)) ELSE s

RECURSIVE TrimRight(_)
TrimRight(s) ==
    IF s # <<>> /\ s[Len(s)] \in WhiteSpace
    THEN TrimRight(SubSeq(s, 1, Len(s) - 1))
    ELSE s

\* String.prototype.trim
trim(x) == Str(TrimRight(TrimLeft(x.v)))

\* String.prototype.split(' '): the pieces between " " tokens
RECURSIVE split(_)
split(s) ==
    IF \A i \in 1..Len(s) : s[i] # " "
    THEN <<s>>
    ELSE LET k == CHOOSE i \in 1..Len(s) :
                      s[i] = " " /\ \A j \in 1..(i - 1) : s[j] # " "
         IN  <<SubSeq(s, 1, k - 1)>> \o split(SubSeq(s, k + 1, Len(s)))

----------------------------------------------------------------------------
(* The environment: the search path, `which`, and Gio.Subprocess *)

Binaries == {"pkexec", "gksudo", "prime-select", "nvidia-smi", "nvidia-settings"}

WhichStyles == {"silent", "verbose"}

\* the absolute path of an executable of the search path
PathOf(name) == <<"/usr/bin/", name>>

\* e.toString() of the error Gio raises when a spawn fails
ErrText == <<"Error:", " ", "spawn", " ", "failed">>

\* the status a result keeps when the spawn failed
SpawnFailed == -1

\* what a child process gives back: exit status and the two streams
Child(status, out, err) == [status |-> status, stdout |-> out, stderr |-> err]

\* `which name`: the path on stdout when found; otherwise nothing, or a
\* message on stderr, depending on the implementation of which
WhichChild(name, path, style) ==
    IF name \in path
    THEN Child(0, PathOf(name) \o <<"\n">>, <<>>)
    ELSE IF style = "verbose"
         THEN Child(1, <<>>, <<"which:", " ", "no", " ", name, "\n">>)
         ELSE Child(1, <<>>, <<>>)

\* whether Gio.Subprocess can spawn argv: argv[0] is an executable
Spawnable(argv, path) ==
    \/ argv[1] = <<"which">>
    \/ \E n \in path : argv[1] = PathOf(n)

----------------------------------------------------------------------------
(* _shell_exec, _which and the constructor *)

\* mutant: the catch branch forgets the error text
_shell_exec_mutant(command, spawned, child) ==
    IF spawned
    THEN [status |-> child.status, stdin |-> command,
          stdout |-> Str(child.stdout), stderr |-> Str(child.stderr)]
    ELSE [status |-> SpawnFailed, stdin |-> command,
          stdout |-> Empty, stderr |-> Empty]

\* _shell_exec(command): spawned tells whether new Gio.Subprocess / init
\* succeeded, child is what the child process then gave back
_shell_exec(command, spawned, child) ==
    IF spawned
    THEN [status |-> child.status, stdin |-> command,
          stdout |-> Str(child.stdout), stderr |-> Str(child.stderr)]
    ELSE [status |-> SpawnFailed, stdin |-> command,
          stdout |-> Empty, stderr |-> Str(ErrText)]

\* _which(command) in an environment
_which(name, path, style) ==
    LET exec == _shell_exec(Str(<<"which", " ", name>>), TRUE,
                            WhichChild(name, path, style))
    IN  Or(trim(exec.stdout), trim(exec.stderr))

Roles == {"sudo", "select", "management", "settings"}

\* the constructor's command table
constructor(path, style) ==
    [sudo       |-> Or(_which("pkexec", path, style), _which("gksudo", path, style)),
     select     |-> _which("prime-select", path, style),
     management |-> _which("nvidia-smi", path, style),
     settings   |-> _which("nvidia-settings", path, style)]

\* command(cmd)
command(table, cmd) == IF cmd \in DOMAIN table THEN table[cmd] ELSE Null

----------------------------------------------------------------------------
(* The getters *)

Intel == Str(<<"intel">>)

Nvidia == Str(<<"nvidia">>)

Unknown == Str(<<"unknown">>)

\* what the sync runner gives for cmdline when the environment answers
\* with child, unless the spawn fails (argv[0] is no executable)
Run(cmdline, path, child) ==
    LET spawned == Spawnable(split(cmdline.v), path)
    IN  [spawned |-> spawned, exec |-> _shell_exec(cmdline, spawned, child)]

NoExec == [status |-> 0, stdin |-> Null, stdout |-> Null, stderr |-> Null]

\* mutant: the cache is never consulted
gpu_cached_mutant(memo) == FALSE

\* get gpu, lines 162-163: the memoized value is returned when set
gpu_cached(memo) == Truthy(memo)

\* get gpu: memo is this._gpu before the call; gives the value returned,
\* the new this._gpu, and the probe run (if any)
gpu(memo, table, path, child) ==
    IF gpu_cached(memo)
    THEN [ret |-> memo, memo |-> memo, ran |-> FALSE, spawned |-> FALSE,
          exec |-> NoExec]
    ELSE LET cmd == command(table, "management")
         IN  IF Truthy(cmd)
             THEN LET r == Run(Cat(cmd, Str(<<" ", "-L">>)), path, child)
                      g == IF r.exec.status # 0 THEN Intel ELSE Nvidia
                  IN  [ret |-> g, memo |-> g, ran |-> TRUE,
                       spawned |-> r.spawned, exec |-> r.exec]
             ELSE [ret |-> Unknown, memo |-> Unknown, ran |-> FALSE,
                   spawned |-> FALSE, exec |-> NoExec]

\* mutant: the standard error stream is not consulted
query_mutant(table, path, child) ==
    LET cmd == command(table, "select")
    IN  IF Truthy(cmd)
        THEN LET r == Run(Cat(cmd, Str(<<" ", "query">>)), path, child)
             IN  [ret |-> Or(trim(r.exec.stdout), Unknown),
                  ran |-> TRUE, spawned |-> r.spawned, exec |-> r.exec]
        ELSE [ret |-> Unknown, ran |-> FALSE, spawned |-> FALSE,
              exec |-> NoExec]

\* get query
query(table, path, child) ==
    LET cmd == command(table, "select")
    IN  IF Truthy(cmd)
        THEN LET r == Run(Cat(cmd, Str(<<" ", "query">>)), path, child)
             IN  [ret |-> Or(Or(trim(r.exec.stdout), trim(r.exec.stderr)), Unknown),
                  ran |-> TRUE, spawned |-> r.spawned, exec |-> r.exec]
        ELSE [ret |-> Unknown, ran |-> FALSE, spawned |-> FALSE,
              exec |-> NoExec]

----------------------------------------------------------------------------
(* The asynchronous runner and the switch *)

\* mutant: the catch branch drops the callback
_shell_exec_async_mutant(cmdline, hasCallback, spawned) ==
    IF spawned
    THEN [started |-> TRUE, delivered |-> <<>>]
    ELSE [started |-> FALSE, delivered |-> <<>>]

\* _shell_exec_async(cmdline, callback), up to its return: whether a
\* subprocess now runs, and the results handed to callback at once
_shell_exec_async(cmdline, hasCallback, spawned) ==
    IF spawned
    THEN [started |-> TRUE, delivered |-> <<>>]
    ELSE [started |-> FALSE,
          delivered |-> IF hasCallback
                        THEN <<[status |-> SpawnFailed, stdin |-> cmdline,
                                stdout |-> Empty, stderr |-> Str(ErrText)]>>
                        ELSE <<>>]

\* the completion handler given to communicate_utf8_async: the results
\* handed to callback when the child has ended
_async_complete(cmdline, hasCallback, child) ==
    IF hasCallback
    THEN <<[status |-> child.status, stdin |-> cmdline,
            stdout |-> Str(child.stdout), stderr |-> Str(child.stderr)]>>
    ELSE <<>>

\* mutant: the result is reported as a success whatever the status
switch_callback_mutant(target, hasCallback, e) ==
    IF hasCallback THEN <<[gpu |-> target, result |-> TRUE]>> ELSE <<>>

\* the function switch() hands to _shell_exec_async: the arguments the
\* caller's callback is invoked with
switch_callback(target, hasCallback, e) ==
    IF hasCallback
    THEN <<[gpu |-> target, result |-> (e.status = 0)]>>
    ELSE <<>>

\* mutant: the comparison with the current selection is left out
switch_proceeds_mutant(sudo, select, selection, target) ==
    Truthy(sudo) /\ Truthy(select)

\* switch(), lines 215-224: whether the three preconditions let it go on
switch_proceeds(sudo, select, selection, target) ==
    Truthy(sudo) /\ Truthy(select) /\ selection # target

\* the cmdline line switch() builds
switch_cmd(sudo, select, target) ==
    Cat(Cat(Cat(Cat(sudo, Str(<<" ">>)), select), Str(<<" ">>)), target)

\* mutant: one call starts the helper twice
switch_launches_mutant(started, proc) ==
    IF started THEN SetToBag({proc}) (+) SetToBag({proc}) ELSE EmptyBag

\* the subprocesses one passing switch() call leaves running
switch_launches(started, proc) ==
    IF started THEN SetToBag({proc}) ELSE EmptyBag

----------------------------------------------------------------------------
(* The file monitor *)

Monitor(id) == [t |-> "obj", v |-> <<id>>]

\* mutant: monitor() subscribes whatever this._listener holds
monitor_returns_mutant(listener) == FALSE

\* monitor(), lines 264-265: nothing is done while a listener is set
monitor_returns(listener) == Truthy(listener)

\* monitor(): the new this._listener and the uncancelled monitors
monitor(listener, active) ==
    IF monitor_returns(listener)
    THEN [listener |-> listener, active |-> active]
    ELSE LET id == CHOOSE i \in 1..(Cardinality(active) + 1) : i \notin active
         IN  [listener |-> Monitor(id), active |-> active \cup {id}]

\* unmonitor(): cancel() ends the monitor this._listener refers to
unmonitor(listener, active) ==
    IF ~Truthy(listener)
    THEN [listener |-> listener, active |-> active]
    ELSE [listener |-> Null, active |-> active \ {listener.v[1]}]

----------------------------------------------------------------------------
(* State *)

NoChild == Child(0, <<>>, <<>>)

\* the observation of an operation that did nothing observable
Blank ==
    [op |-> "new", arg |-> Null, cb |-> FALSE, site |-> "none",
     ret |-> Null, memo |-> Null, sel |-> Null,
     ran |-> FALSE, spawned |-> FALSE, child |-> NoChild, exec |-> NoExec,
     launch |-> 0, started |-> FALSE, acb |-> <<>>, ucb |-> <<>>,
     pre |-> 0, emit |-> <<>>]

\* the exit statuses a helper ends with
ExitStatuses == {0, 1}

\* what `<selector> query` may print: (stdout, stderr)
QueryChildren ==
    {Child(0, <<"nvidia", "\n">>, <<>>),
     Child(0, <<"intel", "\n">>, <<>>),
     Child(1, <<>>, <<"intel", "\n">>),
     Child(0, <<"\n">>, <<>>)}

\* the targets callers pass to switch()
Targets == {Intel, Nvidia}

Init ==
    \E P \in SUBSET Binaries, style \in WhichStyles :
        /\ onPath = P
        /\ whichStyle = style
        /\ _commands = constructor(P, style)
        /\ _gpu = Null
        /\ _listener = Null
        /\ watches = {}
        /\ inflight = EmptyBag
        /\ last = Blank

Env == <<onPath, whichStyle, _commands>>

\* the callbacks of the caller that a list of results leads to
RECURSIVE Deliver(_, _, _)
Deliver(target, hasCb, results) ==
    IF results = <<>>
    THEN <<>>
    ELSE switch_callback(target, hasCb, Head(results))
             \o Deliver(target, hasCb, Tail(results))

----------------------------------------------------------------------------
(* Operations *)

\* command(cmd)
Command ==
    \E role \in Roles \cup {"other"} :
        /\ last' = [Blank EXCEPT !.op = "command", !.arg = Str(<<role>>),
                                 !.ret = command(_commands, role)]
        /\ UNCHANGED <<Env, _gpu, _listener, watches, inflight>>

\* get gpu
Gpu ==
    \E status \in ExitStatuses :
        LET child == Child(status, <<>>, <<>>)
            r == gpu(_gpu, _commands, onPath, child)
        IN  /\ _gpu' = r.memo
            /\ last' = [Blank EXCEPT !.op = "gpu", !.memo = _gpu, !.ret = r.ret,
                                     !.ran = r.ran, !.spawned = r.spawned,
                                     !.child = child, !.exec = r.exec]
            /\ UNCHANGED <<Env, _listener, watches, inflight>>

\* get query
Query ==
    \E child \in QueryChildren :
        LET r == query(_commands, onPath, child)
        IN  /\ last' = [Blank EXCEPT !.op = "query", !.ret = r.ret,
                                     !.ran = r.ran, !.spawned = r.spawned,
                                     !.child = IF r.ran THEN child ELSE NoChild,
                                     !.exec = r.exec]
            /\ UNCHANGED <<Env, _gpu, _listener, watches, inflight>>

\* switch(gpu, callback)
Switch ==
    \E target \in Targets, hasCb \in BOOLEAN, qchild \in QueryChildren :
        LET sudo == command(_commands, "sudo")
            select == command(_commands, "select")
            q == query(_commands, onPath, qchild)
            asked == Truthy(sudo) /\ Truthy(select)
            go == switch_proceeds(sudo, select, q.ret, target)
            cmdline == switch_cmd(sudo, select, target)
            a == _shell_exec_async(cmdline, TRUE,
                                   Spawnable(split(cmdline.v), onPath))
            proc == [site |-> "switch", cmd |-> cmdline, gpu |-> target, cb |-> hasCb]
        IN  /\ go => BagCardinality(inflight) < MaxInflight
            /\ inflight' = IF go THEN inflight (+) switch_launches(a.started, proc)
                                 ELSE inflight
            /\ last' = [Blank EXCEPT
                          !.op = "switch", !.arg = target, !.cb = hasCb,
                          !.site = "switch", !.sel = q.ret,
                          !.ran = asked /\ q.ran,
                          !.launch = IF go THEN 1 ELSE 0,
                          !.started = go /\ a.started,
                          !.acb = IF go THEN a.delivered ELSE <<>>,
                          !.ucb = IF go THEN Deliver(target, hasCb, a.delivered)
                                        ELSE <<>>,
                          !.pre = BagCardinality(inflight)]
            /\ UNCHANGED <<Env, _gpu, _listener, watches>>

\* settings()
Settings ==
    LET cmdline == command(_commands, "settings")
        go == Truthy(cmdline)
        a == _shell_exec_async(cmdline, FALSE,
                               Spawnable(split(cmdline.v), onPath))
        proc == [site |-> "settings", cmd |-> cmdline, gpu |-> Null, cb |-> FALSE]
    IN  /\ go => BagCardinality(inflight) < MaxInflight
        /\ inflight' = IF go /\ a.started THEN inflight (+) SetToBag({proc})
                                          ELSE inflight
        /\ last' = [Blank EXCEPT
                      !.op = "settings", !.site = "settings",
                      !.launch = IF go THEN 1 ELSE 0,
                      !.started = go /\ a.started,
                      !.acb = IF go THEN a.delivered ELSE <<>>,
                      !.pre = BagCardinality(inflight)]
        /\ UNCHANGED <<Env, _gpu, _listener, watches>>

\* a running subprocess ends: the handler given to communicate_utf8_async
Complete ==
    \E proc \in BagToSet(inflight), status \in ExitStatuses :
        LET child == Child(status, <<>>, <<>>)
            results == _async_complete(proc.cmd, proc.site = "switch", child)
        IN  /\ inflight' = inflight (-) SetToBag({proc})
            /\ last' = [Blank EXCEPT
                          !.op = "complete", !.arg = proc.gpu, !.cb = proc.cb,
                          !.site = proc.site, !.child = child,
                          !.acb = results,
                          !.ucb = IF proc.site = "switch"
                                  THEN Deliver(proc.gpu, proc.cb, results)
                                  ELSE <<>>,
                          !.pre = BagCardinality(inflight)]
            /\ UNCHANGED <<Env, _gpu, _listener, watches>>

\* monitor()
MonitorOp ==
    LET r == monitor(_listener, watches)
    IN  /\ _listener' = r.listener
        /\ watches' = r.active
        /\ last' = [Blank EXCEPT !.op = "monitor", !.pre = Cardinality(watches)]
        /\ UNCHANGED <<Env, _gpu, inflight>>

\* unmonitor()
UnmonitorOp ==
    LET r == unmonitor(_listener, watches)
    IN  /\ _listener' = r.listener
        /\ watches' = r.active
        /\ last' = [Blank EXCEPT !.op = "unmonitor", !.pre = Cardinality(watches)]
        /\ UNCHANGED <<Env, _gpu, inflight>>

\* destroy()
Destroy ==
    LET r == unmonitor(_listener, watches)
    IN  /\ _listener' = r.listener
        /\ watches' = r.active
        /\ last' = [Blank EXCEPT !.op = "destroy", !.pre = Cardinality(watches)]
        /\ UNCHANGED <<Env, _gpu, inflight>>

\* an uncancelled monitor reports a change: _handle_listener
FileChanged ==
    \E id \in watches, status \in ExitStatuses :
        LET child == Child(status, <<>>, <<>>)
            r == gpu(_gpu, _commands, onPath, child)
        IN  /\ _gpu' = r.memo
            /\ last' = [Blank EXCEPT !.op = "change", !.memo = _gpu, !.ret = r.ret,
                                     !.ran = r.ran, !.spawned = r.spawned,
                                     !.child = child, !.exec = r.exec,
                                     !.emit = <<r.ret>>]
            /\ UNCHANGED <<Env, _listener, watches, inflight>>

\* the operations on the helpers: they write inflight only
NextSwitch ==
    \/ Command
    \/ Query
    \/ Switch
    \/ Settings
    \/ Complete

\* the operations on the GPU cache and the file monitor: they write _gpu,
\* _listener and watches only
NextWatch ==
    \/ Gpu
    \/ MonitorOp
    \/ UnmonitorOp
    \/ Destroy
    \/ FileChanged

Next == NextSwitch \/ NextWatch

\* the whole object
Spec == Init /\ [][Next]_vars

\* The two groups of operations write disjoint parts of the object (the
\* command table is read-only after construction), so each group is also
\* checked on its own, from every environment.
SpecSwitch == Init /\ [][NextSwitch]_vars

SpecWatch == Init /\ [][NextWatch]_vars

----------------------------------------------------------------------------
(* Properties *)

\* the running subprocesses that switch() started
SwitchesInFlight ==
    BagCardinality([p \in {q \in BagToSet(inflight) : q.site = "switch"}
                       |-> inflight[p]])

\* the executables a role is resolved from, in the order tried
Candidates(role) ==
    CASE role = "sudo"       -> <<"pkexec", "gksudo">>
      [] role = "select"     -> <<"prime-select">>
      [] role = "management" -> <<"nvidia-smi">>
      [] role = "settings"   -> <<"nvidia-settings">>

\* no executable of the role is on the search path
RoleMissing(role) ==
    \A i \in 1..Len(Candidates(role)) : Candidates(role)[i] \notin onPath

\* the GPU the probe's exit status stands for
GpuOfStatus(status) == IF status = 0 THEN Nvidia ELSE Intel

C2_NoSpawnWhenSelected ==
    (last.op = "switch" /\ last.sel = last.arg) =>
        /\ last.launch = 0 /\ ~last.started
        /\ last.acb = <<>> /\ last.ucb = <<>>
        /\ BagCardinality(inflight) = last.pre

\* switch("nvidia", callback) was called while `<selector> query` answered
\* nvidia
C2_Witness ==
    /\ last.op = "switch" /\ last.cb /\ last.ran
    /\ last.arg = Nvidia /\ last.sel = Nvidia

\* C3: a role with no executable on the search path resolves to the absent
\* marker (null, or the equally falsy empty string), and switch() and
\* settings() then attempt no spawn and invoke no callback.
C3_MissingHelperIsNull ==
    /\ \A role \in Roles :
          RoleMissing(role) => ~Truthy(command(_commands, role))
    /\ (last.op = "switch" /\ (RoleMissing("sudo") \/ RoleMissing("select"))) =>
          last.launch = 0 /\ last.ucb = <<>>
    /\ (last.op = "settings" /\ RoleMissing("settings")) => last.launch = 0

C5_OneSubscription ==
    /\ Cardinality(watches) <= 1
    /\ Truthy(_listener) <=> watches # {}
    /\ Truthy(_listener) => watches = {_listener.v[1]}
    /\ last.op = "monitor" => Truthy(_listener)
    /\ last.op \in {"unmonitor", "destroy"} => ~Truthy(_listener)

\* monitor() was called while already watching
C5_Witness ==
    last.op = "monitor" /\ last.pre = 1 /\ Cardinality(watches) = 1

C7_OneSwitchInFlight == SwitchesInFlight <= 1

\* C7 (amended): switch() does not look at the subprocesses already
\* running; one call starts at most one subprocess.
C7_OnePerCall ==
    last.op = "switch" =>
        /\ BagCardinality(inflight) <= last.pre + 1
        /\ BagCardinality(inflight) >= last.pre

\* switch() started a helper while an earlier one was still running
C7_Witness ==
    last.op = "switch" /\ last.started /\ SwitchesInFlight = 2

\* C8: the change handler runs the manager probe again and notifies the
\* GPU that this probe observed.
C8_ChangeReprobes ==
    (last.op = "change" /\ Truthy(command(_commands, "management"))) =>
        /\ last.ran
        /\ last.emit = <<GpuOfStatus(last.exec.status)>>

C10_SyncRunnerCaptures ==
    (last.op \in {"query", "gpu", "change"} /\ last.ran) =>
        IF last.spawned
        THEN /\ last.exec.status = last.child.status
             /\ last.exec.stdout = Str(last.child.stdout)
             /\ last.exec.stderr = Str(last.child.stderr)
        ELSE /\ last.exec.status = SpawnFailed
             /\ last.exec.stdout = Empty
             /\ last.exec.stderr = Str(ErrText)

\* the selector command could not be spawned and the runner returned -1
C10_Witness ==
    /\ last.op = "query" /\ last.ran /\ ~last.spawned
    /\ last.exec.status = SpawnFailed /\ last.exec.stderr = Str(ErrText)

====
